---- MODULE Spec2Model ----
(***************************************************************************)
(* Story generation jobs, the expansion of a generated schema tree into    *)
(* StoryNode rows, and the assembly of the stored rows into the complete   *)
(* story response (backend/routers/story.py, backend/models/story.py,      *)
(* backend/core/models.py, backend/db/database.py).                        *)
(***************************************************************************)
EXTENDS Integers, Sequences, FiniteSets, TLC

\* ------------------------------------------------------------------ bounds
MaxJobs == 2
MaxRows == 2
\* Window of the responses kept in reads.
MaxReads == 2

\* --------------------------------------------------------- column values
\* A nullable integer column (story_jobs.story_id, completed_at) holding NULL.
Null == 0
\* A nullable string column (story_jobs.error) holding NULL.
NoError == "None"
\* Optional[List[StoryOptionLLM]]: None, or a list.
NoOptions == {}
SomeOptions(list) == {list}

JobIds == 1..MaxJobs
SessionIds == {"s1", "s2"}
Themes == {"dragons"}
\* stories.id values a read may ask for: at most one story per job.
StoryIds == 1..MaxJobs

\* ------------------------------------------------- models/story.py rows
Story(id, title, session_id, created_at) ==
  [id |-> id, title |-> title, session_id |-> session_id,
   created_at |-> created_at]

StoryNodeRenamedColumn(id, story_id, content, is_root, is_ending, is_winning, options) ==
  [id |-> id, story_id |-> story_id, content |-> content, is_root |-> is_root,
   is_ending |-> is_ending, is_winning_ending |-> is_winning, options |-> options]

StoryNode(id, story_id, content, is_root, is_ending, is_winning, options) ==
  [id |-> id, story_id |-> story_id, content |-> content, is_root |-> is_root,
   is_ending |-> is_ending, is_winning |-> is_winning, options |-> options]

\* ------------------------------------------------ core/models.py schema
StoryOptionLLM(text, nextNode) == [text |-> text, nextNode |-> nextNode]

StoryNodeLLM(content, isEnding, isWinningEnding, options) ==
  [content |-> content, isEnding |-> isEnding,
   isWinningEnding |-> isWinningEnding, options |-> options]

StoryLLMResponse(title, rootNode) == [title |-> title, rootNode |-> rootNode]

\* nextNode is Dict[str, Any]: a nested node is not validated with the
\* response, so a dict that is no StoryNodeLLM passes the parse.
InvalidNodeDict == [unexpected |-> "x"]

IsStoryNodeLLM(d) ==
  {"content", "isEnding", "isWinningEnding", "options"} \subseteq DOMAIN d

\* Python truthiness of Optional[List]: None and [] are both falsy.
OptionList(sn) == CHOOSE list \in sn.options : TRUE

HasOptions(sn) ==
  IF sn.options = NoOptions THEN FALSE ELSE Len(OptionList(sn)) > 0

\* ------------------------------------------------------- TreeExpander
\* The store writes of one expansion, in the order they are issued.  Nodes
\* are named by their creation index (ix); the store assigns the identity
\* when the insert is flushed.
InsertWrite(ix, sn, is_root) ==
  [op |-> "insert", ix |-> ix, content |-> sn.content, is_root |-> is_root,
   is_ending |-> sn.isEnding, is_winning |-> sn.isWinningEnding]

UpdateWrite(ix, options) == [op |-> "update", ix |-> ix, options |-> options]

RaiseWrite == [op |-> "raise"]

Raises(ws) == Len(ws) > 0 /\ ws[Len(ws)].op = "raise"

RECURSIVE ExpandWrites(_, _, _)
RECURSIVE ExpandOptions(_, _, _, _, _, _)

\* expand(store, story_id, schema_node, is_root): [writes, next], where
\* ix is the index the created node gets and next the first unused index.
ExpandWrites(sn, is_root, ix) ==
  IF ~IsStoryNodeLLM(sn)
  THEN [writes |-> <<RaiseWrite>>, next |-> ix]
  ELSE IF ~sn.isEnding /\ HasOptions(sn)
       THEN ExpandOptions(OptionList(sn), 1, ix, ix + 1, <<InsertWrite(ix, sn, is_root)>>, <<>>)
       ELSE [writes |-> <<InsertWrite(ix, sn, is_root)>>, next |-> ix + 1]

\* The loop over the options of node `parent`: expand the nested node, then
\* append {text, node_id} of the child; after the last option the parent's
\* option list is persisted.
ExpandOptions(opts, i, parent, next, writes, acc) ==
  IF i > Len(opts)
  THEN [writes |-> Append(writes, UpdateWrite(parent, acc)), next |-> next]
  ELSE LET r == ExpandWrites(opts[i].nextNode, FALSE, next)
       IN  IF Raises(r.writes)
           THEN [writes |-> writes \o r.writes, next |-> r.next]
           ELSE ExpandOptions(opts, i + 1, parent, r.next, writes \o r.writes,
                              Append(acc, [text |-> opts[i].text, node_id |-> next]))

\* One write applied to a set of StoryNode rows; ids maps a creation index
\* to the identity the store assigned.
ApplyWrite(rows, w, story_id, ids) ==
  IF w.op = "insert"
  THEN rows \cup {StoryNode(ids[w.ix], story_id, w.content, w.is_root,
                            w.is_ending, w.is_winning, <<>>)}
  ELSE {IF r.id = ids[w.ix]
        THEN [r EXCEPT !.options =
                [k \in 1..Len(w.options) |->
                   [text |-> w.options[k].text, node_id |-> ids[w.options[k].node_id]]]]
        ELSE r : r \in rows}

RECURSIVE ApplyWrites(_, _, _, _)
ApplyWrites(rows, ws, story_id, ids) ==
  IF ws = <<>> THEN rows
  ELSE ApplyWrites(ApplyWrite(rows, Head(ws), story_id, ids), Tail(ws), story_id, ids)

\* ------------------------------------------ build_complete_story_tree
NodeResponseAttrs == {"id", "content", "is_ending", "is_winning_ending", "options"}

AttributeError == [kind |-> "AttributeError"]
RootNotFound == [kind |-> "HTTPException", status_code |-> 500,
                 detail |-> "Story root node not found"]
StoryNotFound == [kind |-> "HTTPException", status_code |-> 404,
                  detail |-> "Story not found"]

\* CompleteStoryNodeResponse(id=node.id, ..., is_winning_ending=
\* node.is_winning_ending, ...): reading an attribute the row does not have
\* raises AttributeError.
CompleteStoryNodeResponse(node) ==
  IF NodeResponseAttrs \subseteq DOMAIN node
  THEN [kind |-> "ok", id |-> node.id, content |-> node.content,
        is_ending |-> node.is_ending,
        is_winning_ending |-> node.is_winning_ending, options |-> node.options]
  ELSE AttributeError

\* for node in nodes: node_dict[node.id] = node_response
RECURSIVE NodeDict(_, _, _)
NodeDict(nodes, i, dict) ==
  IF i > Len(nodes) THEN [kind |-> "ok", dict |-> dict]
  ELSE LET r == CompleteStoryNodeResponse(nodes[i])
       IN  IF r.kind = "AttributeError" THEN AttributeError
           ELSE NodeDict(nodes, i + 1,
                  [k \in DOMAIN dict \cup {nodes[i].id} |->
                     IF k = nodes[i].id THEN r ELSE dict[k]])

\* next((node for node in nodes if node.is_root), None) as an index, 0 for None.
FirstRoot(nodes) ==
  LET idx == {i \in 1..Len(nodes) : nodes[i].is_root}
  IN  IF idx = {} THEN 0 ELSE CHOOSE i \in idx : \A k \in idx : i <= k

\* nodes is the row list the store returned for story.id, in its order.
build_complete_story_tree(nodes, story) ==
  LET d == NodeDict(nodes, 1, <<>>)
  IN  IF d.kind = "AttributeError" THEN AttributeError
      ELSE IF FirstRoot(nodes) = 0 THEN RootNotFound
      ELSE [kind |-> "ok", id |-> story.id, title |-> story.title,
            session_id |-> story.session_id, created_at |-> story.created_at,
            root_node |-> d.dict[nodes[FirstRoot(nodes)].id],
            all_nodes |-> d.dict]

\* All orders in which the store may return a set of rows.
RECURSIVE Orders(_)
Orders(S) ==
  IF S = {} THEN {<<>>}
  ELSE UNION {{<<x>> \o o : o \in Orders(S \ {x})} : x \in S}

\* db.query(StoryNode).filter(StoryNode.story_id == story.id)
NodesOf(rows, story_id) == {r \in rows : r.story_id = story_id}


\* -------------------------------------------------------------- state
VARIABLES
  jobs,         \* committed story_jobs rows
  stories,      \* committed stories rows
  nodes,        \* committed story_nodes rows
  task,         \* per job: the background task and its own Session
  nextStoryId,  \* the store's next stories.id
  nextNodeId,   \* the store's next story_nodes.id
  clock,        \* datetime.now()
  reads,        \* the last responses of get_complete_story
  actor         \* the job whose task took the last step (Null: a request)

vars == <<jobs, stories, nodes, task, nextStoryId, nextNodeId, clock, reads, actor>>

\* ------------------------------------------------------- StoryJob rows
StoryJob(job_id, session_id, theme, status) ==
  [job_id |-> job_id, session_id |-> session_id, theme |-> theme,
   status |-> status, story_id |-> Null, error |-> NoError,
   completed_at |-> Null]

NoJob == StoryJob(Null, "", "", "")
NoStory == Story(Null, "", "", Null)

\* db.query(StoryJob).filter(StoryJob.job_id == job_id)
QueryJobUnfiltered(rows, job_id) == rows

QueryJob(rows, job_id) == {r \in rows : r.job_id = job_id}

\* job.status = "processing"
MarkProcessingAsCompleted(job) == [job EXCEPT !.status = "completed"]

MarkProcessing(job) == [job EXCEPT !.status = "processing"]

\* job.story_id = story.id; job.status = "completed"; job.completed_at = now
MarkCompletedNoStatus(job, story, now) ==
  [job EXCEPT !.story_id = story.id, !.completed_at = now]

MarkCompleted(job, story, now) ==
  [job EXCEPT !.story_id = story.id, !.status = "completed", !.completed_at = now]

\* job.status = "failed"; job.completed_at = now; job.error = str(e)
MarkFailed(job, e, now) ==
  [job EXCEPT !.status = "failed", !.completed_at = now, !.error = e]

\* ------------------------------------------------- the task's Session
\* SessionLocal(): autocommit=False, autoflush=False.  A Session's writes
\* are flushed into its transaction (txStories, txNodes; the job object's
\* attribute changes stay in obj) and reach the tables on commit.  A flush
\* or commit that fails rolls the transaction back, expires the loaded
\* objects and leaves the Session inactive: until Session.rollback() is
\* called, every further commit raises.
IdleTask ==
  [pc |-> "none", session_id |-> "", theme |-> "", obj |-> NoJob,
   inactive |-> FALSE, txStories |-> {}, txNodes |-> {}, title |-> "",
   writes |-> <<>>, ids |-> <<>>, story |-> NoStory, exc |-> NoError,
   calls |-> 0, outcome |-> "none", crashed |-> FALSE]

\* The rows of `rows` with the row of the same job_id replaced by job.
PutJob(rows, job) == {r \in rows : r.job_id # job.job_id} \cup {job}

\* The committed row behind a loaded job object (what an expired object
\* is refreshed from).
Refreshed(rows, job) ==
  IF \E r \in rows : r.job_id = job.job_id
  THEN CHOOSE r \in rows : r.job_id = job.job_id
  ELSE job

\* db.close() in the finally block: the Session's state is released.
Closed(t) ==
  [t EXCEPT !.pc = "done", !.obj = NoJob, !.inactive = FALSE,
            !.txStories = {}, !.txNodes = {}, !.writes = <<>>, !.ids = <<>>,
            !.title = "", !.exc = NoError]

\* A failed flush or commit of task t's Session, raising exception e into
\* the except branch of generate_story_task.
StoreFault(t, e) ==
  [t EXCEPT !.pc = "except", !.exc = e, !.inactive = TRUE,
            !.txStories = {}, !.txNodes = {}, !.obj = Refreshed(jobs, t.obj)]

\* ------------------------------------------------ generated responses
Ending(content, winning) == StoryNodeLLM(content, TRUE, winning, SomeOptions(<<>>))

\* The responses the generation service returns in the job model: the
\* trivial story, one branch deep, a non-ending node without options, an
\* ending node carrying options, and a nested node that is no StoryNodeLLM.
JobSchemas ==
  { StoryLLMResponse("T", Ending("a", TRUE)),
    StoryLLMResponse("T", StoryNodeLLM("a", FALSE, FALSE,
       SomeOptions(<<StoryOptionLLM("x", Ending("b", TRUE)),
                     StoryOptionLLM("y", Ending("b", FALSE))>>))),
    StoryLLMResponse("T", StoryNodeLLM("a", FALSE, FALSE, NoOptions)),
    StoryLLMResponse("T", StoryNodeLLM("a", TRUE, FALSE,
       SomeOptions(<<StoryOptionLLM("x", Ending("b", TRUE))>>))),
    StoryLLMResponse("T", StoryNodeLLM("a", FALSE, FALSE,
       SomeOptions(<<StoryOptionLLM("x", Ending("b", TRUE)),
                     StoryOptionLLM("y", InvalidNodeDict)>>))) }

\* ------------------------------------------------------------- actions

Remember(rs, r) ==
  IF Len(rs) < MaxReads THEN Append(rs, r) ELSE Append(Tail(rs), r)

\* POST /stories/create: the job row is committed as 'pending' and the
\* background task is scheduled; a failed commit raises into the request.
CreateStory(j, session_id, theme, ok) ==
  /\ task[j].pc = "none"
  /\ \A k \in JobIds : k < j => task[k].pc # "none"
  /\ actor' = Null
  /\ IF ok
     THEN /\ jobs' = jobs \cup {StoryJob(j, session_id, theme, "pending")}
          /\ task' = [task EXCEPT ![j] =
               [IdleTask EXCEPT !.pc = "queued", !.session_id = session_id,
                                !.theme = theme]]
     ELSE UNCHANGED <<jobs, task>>
  /\ UNCHANGED <<stories, nodes, nextStoryId, nextNodeId, clock, reads>>

\* generate_story_task, lines 109-115: open a Session, load the job.
TaskQuery(j) ==
  /\ task[j].pc = "queued"
  /\ actor' = j
  /\ IF QueryJob(jobs, j) = {}
     THEN task' = [task EXCEPT ![j] = Closed(@)]
     ELSE \E r \in QueryJob(jobs, j) :
            task' = [task EXCEPT ![j] = [@ EXCEPT !.pc = "processing", !.obj = r]]
  /\ UNCHANGED <<jobs, stories, nodes, nextStoryId, nextNodeId, clock, reads>>

\* lines 118-119: job.status = "processing"; db.commit()
TaskProcessing(j, ok) ==
  /\ task[j].pc = "processing"
  /\ actor' = j
  /\ LET job == MarkProcessing(task[j].obj)
     IN  IF ok
         THEN /\ jobs' = PutJob(jobs, job)
              /\ task' = [task EXCEPT ![j] = [@ EXCEPT !.pc = "generate", !.obj = job]]
         ELSE /\ task' = [task EXCEPT ![j] = StoreFault(@, "commit failed")]
              /\ UNCHANGED jobs
  /\ UNCHANGED <<stories, nodes, nextStoryId, nextNodeId, clock, reads>>

\* line 121, StoryGenerator.generate_story steps 1-2: one call of the
\* generation service, parsed against StoryLLMResponse, or an error.
GenCall(j) ==
  /\ task[j].pc = "generate"
  /\ actor' = j
  /\ \/ \E resp \in JobSchemas :
          task' = [task EXCEPT ![j] =
            [@ EXCEPT !.pc = "gen_story", !.title = resp.title, !.calls = @ + 1,
                      !.writes = ExpandWrites(resp.rootNode, TRUE, 1).writes]]
     \/ task' = [task EXCEPT ![j] =
            [@ EXCEPT !.pc = "except", !.exc = "GenerationError", !.calls = @ + 1,
                      !.outcome = "raised"]]
  /\ UNCHANGED <<jobs, stories, nodes, nextStoryId, nextNodeId, clock, reads>>

\* step 3: the Story row is persisted through the task's Session.
GenStory(j, ok) ==
  /\ task[j].pc = "gen_story"
  /\ actor' = j
  /\ IF ok
     THEN LET story == Story(nextStoryId, task[j].title, task[j].session_id, clock)
          IN  /\ task' = [task EXCEPT ![j] =
                   [@ EXCEPT !.pc = "gen_nodes", !.story = story,
                             !.txStories = {story}]]
              /\ nextStoryId' = nextStoryId + 1
     ELSE /\ task' = [task EXCEPT ![j] =
               [StoreFault(@, "PersistenceError") EXCEPT !.outcome = "raised"]]
          /\ UNCHANGED nextStoryId
  /\ UNCHANGED <<jobs, stories, nodes, nextNodeId, clock, reads>>

\* step 4: the next store write of TreeExpander.expand; after the last one
\* the generator returns the Story.
GenWrite(j, ok) ==
  /\ task[j].pc = "gen_nodes"
  /\ actor' = j
  /\ LET t == task[j]
         w == Head(t.writes)
         ids == IF w.op = "insert" THEN Append(t.ids, nextNodeId) ELSE t.ids
         last == Len(t.writes) = 1
     IN  IF w.op = "raise"
         THEN /\ ok
              /\ task' = [task EXCEPT ![j] =
                   [@ EXCEPT !.pc = "except", !.exc = "ValidationError",
                             !.outcome = "raised"]]
              /\ UNCHANGED nextNodeId
         ELSE IF ok
         THEN /\ task' = [task EXCEPT ![j] =
                   [@ EXCEPT !.pc = IF last THEN "completed" ELSE "gen_nodes",
                             !.outcome = IF last THEN "returned" ELSE @,
                             !.writes = Tail(@), !.ids = ids,
                             !.txNodes = ApplyWrite(@, w, t.story.id, ids)]]
              /\ nextNodeId' = IF w.op = "insert" THEN nextNodeId + 1 ELSE nextNodeId
         ELSE /\ task' = [task EXCEPT ![j] =
                   [StoreFault(@, "PersistenceError") EXCEPT !.outcome = "raised"]]
              /\ UNCHANGED nextNodeId
  /\ UNCHANGED <<jobs, stories, nodes, nextStoryId, clock, reads>>

\* lines 123-126: the job is marked completed and committed together with
\* the rows the generator wrote; then the finally block closes the Session.
TaskCompleted(j, ok) ==
  /\ task[j].pc = "completed"
  /\ actor' = j
  /\ clock' = clock + 1
  /\ LET job == MarkCompleted(task[j].obj, task[j].story, clock)
     IN  IF ok
         THEN /\ jobs' = PutJob(jobs, job)
              /\ stories' = stories \cup task[j].txStories
              /\ nodes' = nodes \cup task[j].txNodes
              /\ task' = [task EXCEPT ![j] = Closed(@)]
         ELSE /\ task' = [task EXCEPT ![j] = StoreFault(@, "commit failed")]
              /\ UNCHANGED <<jobs, stories, nodes>>
  /\ UNCHANGED <<nextStoryId, nextNodeId, reads>>

\* lines 127-133: the except branch marks the job failed and commits; an
\* exception of this commit leaves the task; the Session is closed.
TaskFailed(j, ok) ==
  /\ task[j].pc = "except"
  /\ actor' = j
  /\ clock' = clock + 1
  /\ LET job == MarkFailed(task[j].obj, task[j].exc, clock)
     IN  IF ok /\ ~task[j].inactive
         THEN /\ jobs' = PutJob(jobs, job)
              /\ stories' = stories \cup task[j].txStories
              /\ nodes' = nodes \cup task[j].txNodes
              /\ task' = [task EXCEPT ![j] = Closed(@)]
         ELSE /\ task' = [task EXCEPT ![j] = [Closed(@) EXCEPT !.crashed = TRUE]]
              /\ UNCHANGED <<jobs, stories, nodes>>
  /\ UNCHANGED <<nextStoryId, nextNodeId, reads>>

\* GET /stories/{story_id}/complete
get_complete_story(story_id, order) ==
  IF \E s \in stories : s.id = story_id
  THEN build_complete_story_tree(order, CHOOSE s \in stories : s.id = story_id)
  ELSE StoryNotFound

GetCompleteStory(story_id) ==
  /\ \E order \in Orders(NodesOf(nodes, story_id)) :
       reads' = Remember(reads, [story_id |-> story_id,
                                 resp |-> get_complete_story(story_id, order)])
  /\ actor' = Null
  /\ UNCHANGED <<jobs, stories, nodes, task, nextStoryId, nextNodeId, clock>>

\* ------------------------------------------------------ specifications
Init ==
  /\ jobs = {}
  /\ stories = {}
  /\ nodes = {}
  /\ task = [j \in JobIds |-> IdleTask]
  /\ nextStoryId = 1
  /\ nextNodeId = 1
  /\ clock = 1
  /\ reads = <<>>
  /\ actor = Null

Next ==
  \/ \E j \in JobIds, s \in SessionIds, th \in Themes, ok \in BOOLEAN :
       CreateStory(j, s, th, ok)
  \/ \E j \in JobIds : TaskQuery(j)
  \/ \E j \in JobIds, ok \in BOOLEAN : TaskProcessing(j, ok)
  \/ \E j \in JobIds : GenCall(j)
  \/ \E j \in JobIds, ok \in BOOLEAN : GenStory(j, ok)
  \/ \E j \in JobIds, ok \in BOOLEAN : GenWrite(j, ok)
  \/ \E j \in JobIds, ok \in BOOLEAN : TaskCompleted(j, ok)
  \/ \E j \in JobIds, ok \in BOOLEAN : TaskFailed(j, ok)
  \/ \E sid \in StoryIds : GetCompleteStory(sid)

Spec == Init /\ [][Next]_vars


\* The read path alone, over hand-built stores: every table of at most
\* MaxRows story_nodes rows, for two stored stories.
NodeVariants(id) ==
  { StoryNode(id, sid, IF id % 2 = 1 THEN "a" ELSE "b", root, ending, win, opts) :
      sid \in {1, 2}, root \in BOOLEAN, ending \in BOOLEAN, win \in BOOLEAN,
      opts \in {<<>>, <<[text |-> "x", node_id |-> 1]>>} }

RECURSIVE Tables(_)
Tables(n) ==
  IF n = 0 THEN {{}}
  ELSE Tables(n - 1) \cup {t \cup {r} : t \in Tables(n - 1), r \in NodeVariants(n)}

InitStore ==
  /\ jobs = {}
  /\ stories = {Story(1, "T", "s1", 1), Story(2, "U", "s2", 1)}
  /\ nodes \in Tables(MaxRows)
  /\ task = [j \in JobIds |-> IdleTask]
  /\ nextStoryId = 3
  /\ nextNodeId = MaxRows + 1
  /\ clock = 2
  /\ reads = <<>>
  /\ actor = Null

NextStore == \E sid \in StoryIds : GetCompleteStory(sid)

SpecStore == InitStore /\ [][NextStore]_vars

\* -------------------------------------------------------------- claims
Terminal(r) ==
  \/ r.status = "completed" /\ r.story_id # Null /\ r.completed_at # Null
  \/ r.status = "failed" /\ r.error # NoError /\ r.completed_at # Null

JobRow(j) == CHOOSE r \in jobs : r.job_id = j

\* C1: every run of generate_story_task whose job row exists ends with a
\* terminal outcome recorded on the job (completed with story reference and
\* timestamp, or failed with error and timestamp), also when a commit fails.
C1_TerminalOutcome ==
  \A j \in JobIds :
    task[j].pc = "done" => \E r \in jobs : r.job_id = j /\ Terminal(r)

\* C2: a persisted job carries a story reference only when 'completed' and
\* an error only when 'failed'; a 'pending' or 'processing' job carries no
\* story reference, error or completion timestamp.
C2_FieldsMatchStatus ==
  \A r \in jobs :
    /\ r.story_id # Null => r.status = "completed"
    /\ r.error # NoError => r.status = "failed"
    /\ r.status \in {"pending", "processing"} =>
         r.story_id = Null /\ r.error = NoError /\ r.completed_at = Null

\* The final commit after a successful generation failed, the except branch
\* ran, and the task has ended.
C2_Witness ==
  \E j \in JobIds :
    /\ task[j].pc = "done" /\ task[j].outcome = "returned" /\ task[j].crashed
    /\ \E k \in JobIds \ {j} : k \in {r.job_id : r \in jobs} /\ JobRow(k).status = "failed"

\* C3: after a generation that raised partway and a task that has ended, no
\* Story row and no StoryNode row of the attempt is visible to a read.
C3_NoPartialStory ==
  \A j \in JobIds :
    (task[j].pc = "done" /\ task[j].outcome = "raised") =>
       /\ \A s \in stories : s.id # task[j].story.id
       /\ \A n \in nodes : n.story_id # task[j].story.id
       /\ \A order \in Orders(NodesOf(nodes, task[j].story.id)) :
            get_complete_story(task[j].story.id, order) = StoryNotFound

Roots(story_id) == {n \in NodesOf(nodes, story_id) : n.is_root}

StoryStored(story_id) == \E s \in stories : s.id = story_id

\* C4: a read of a stored story without a root-flagged node fails with the
\* root-not-found fault.
C4_NoRootFault ==
  \A i \in 1..Len(reads) :
    (StoryStored(reads[i].story_id) /\ Roots(reads[i].story_id) = {}) =>
       reads[i].resp = RootNotFound

\* C5: a read of a stored story with more than one root-flagged node fails
\* with the root-not-found fault.
C5_ManyRootsFault ==
  \A i \in 1..Len(reads) :
    (StoryStored(reads[i].story_id) /\ Cardinality(Roots(reads[i].story_id)) > 1) =>
       reads[i].resp = RootNotFound

\* C6: a read of a stored story with exactly one root-flagged node returns
\* a view with one all_nodes entry per stored node of that story, each a
\* verbatim copy of the row, and root_node the entry of the root.
C6_ViewMatchesRows ==
  \A i \in 1..Len(reads) :
    LET sid == reads[i].story_id
        v == reads[i].resp
    IN  (StoryStored(sid) /\ Cardinality(Roots(sid)) = 1) =>
          /\ v.kind = "ok"
          /\ DOMAIN v.all_nodes = {n.id : n \in NodesOf(nodes, sid)}
          /\ \A n \in NodesOf(nodes, sid) :
               /\ v.all_nodes[n.id].id = n.id
               /\ v.all_nodes[n.id].content = n.content
               /\ v.all_nodes[n.id].is_ending = n.is_ending
               /\ v.all_nodes[n.id].is_winning_ending = n.is_winning
               /\ v.all_nodes[n.id].options = n.options
          /\ \A n \in Roots(sid) : v.root_node = v.all_nodes[n.id]

\* C7: two reads of the same unchanged story give the same response (the
\* same view or the same fault), whatever order the store returns the rows in.
C7_ReadsAgree ==
  /\ \A i, k \in 1..Len(reads) :
       reads[i].story_id = reads[k].story_id => reads[i].resp = reads[k].resp
  /\ \A sid \in StoryIds : \A o1, o2 \in Orders(NodesOf(nodes, sid)) :
       get_complete_story(sid, o1) = get_complete_story(sid, o2)

\* Two reads of a story that stores two root-flagged rows.
C7_Witness ==
  /\ Len(reads) = 2
  /\ reads[1].story_id = reads[2].story_id
  /\ Cardinality(Roots(reads[1].story_id)) = 2

\* C8: every StoryNode of a completely generated story has an empty option
\* list exactly when it is an ending.
C8_EndingConsistency ==
  \A n \in nodes :
    (\E r \in jobs : r.status = "completed" /\ r.story_id = n.story_id) =>
       ((n.options = <<>>) <=> n.is_ending)

\* C9: a task step changes no job row but its own, and a job ends with the
\* outcome of its own generation.
C9_Isolation ==
  /\ [][\A r \in jobs' : r \notin jobs =>
          \/ r.job_id = actor'
          \/ actor' = Null /\ r.status = "pending" /\ r.job_id \notin {q.job_id : q \in jobs}]_vars
  /\ [][\A r \in jobs : \E q \in jobs' : q.job_id = r.job_id]_vars
  /\ [](\A r \in jobs :
          /\ r.status = "completed" =>
               /\ task[r.job_id].outcome = "returned"
               /\ r.story_id = task[r.job_id].story.id
               /\ \A k \in JobIds \ {r.job_id} : task[k].story.id # r.story_id
          /\ r.status = "failed" => task[r.job_id].outcome = "raised")

\* Job 2 is completed while the task of job 1 is still writing nodes.
C9_Witness ==
  /\ task[1].pc = "gen_nodes"
  /\ \E r \in jobs : r.job_id = 2 /\ r.status = "completed"

\* C10: a job is created 'pending'; its status moves only pending ->
\* processing -> completed | failed, a terminal row never changes; the
\* generator is invoked at most once per job, and only once 'processing' is
\* committed.
C10_Step ==
  /\ \A q \in jobs' :
       IF \E r \in jobs : r.job_id = q.job_id
       THEN LET r == JobRow(q.job_id)
            IN  \/ q = r
                \/ r.status = "pending" /\ q.status = "processing"
                \/ r.status = "processing" /\ q.status \in {"completed", "failed"}
       ELSE q.status = "pending"
  /\ \A j \in JobIds :
       task'[j].calls # task[j].calls =>
          /\ task[j].calls = 0 /\ task'[j].calls = 1
          /\ \E r \in jobs : r.job_id = j /\ r.status = "processing"

C10_StatusForward == [][C10_Step]_vars

\* A job that went through the generator and ended 'failed'.
C10_Witness ==
  \E r \in jobs : r.status = "failed" /\ task[r.job_id].calls = 1

====
